---- MODULE Spec2Model ----
(***************************************************************************)
(* CORS origin authorization of the smart-farm backend.                    *)
(*                                                                         *)
(* The repository carries several variants of the same decision:           *)
(*   - main.ts, first bootstrap: allowedOrigins, originCallback,           *)
(*     enableCors and the explicit CORS middleware (app.use);              *)
(*   - main.ts, second bootstrap: validateOrigin and enableCors;           *)
(*   - main.minimal.ts: the pattern based origin functions and enableCors; *)
(*   - the no-db bootstrap (TROUBLESHOOTING_DB_CONNECTION.md);             *)
(*   - CorsMiddleware.use, which reads the environment on every request.   *)
(*                                                                         *)
(* A JavaScript string is a sequence of pieces (a piece is an indivisible  *)
(* run of characters); an optional value (string | undefined) is a         *)
(* sequence of zero or one strings.                                        *)
(***************************************************************************)
EXTENDS Integers, Sequences, FiniteSets, TLC

\* ------------------------------------------------------------ state

VARIABLES
    phase,               \* "boot" until bootstrap has configured CORS
    env,                 \* process.env.CORS_ORIGIN (string | undefined)
    corsOrigin,          \* const corsOrigin of main.ts and main.minimal.ts
    allowedOrigins,      \* the allowedOrigins array of main.ts (first)
    customOrigins,       \* the customOrigins array of main.minimal.ts
    corsOriginNoDb,      \* const corsOrigin of the no-db bootstrap (trimmed)
    allowedOriginsNoDb,  \* the origin option of the no-db bootstrap
    req,                 \* the request handled last
    res,                 \* its response
    cb,                  \* the last origin callback result
    history              \* the requests handled so far, with their outcome

policy == <<corsOrigin, allowedOrigins, customOrigins, corsOriginNoDb,
            allowedOriginsNoDb>>

vars == <<phase, env, corsOrigin, allowedOrigins, customOrigins,
          corsOriginNoDb, allowedOriginsNoDb, req, res, cb, history>>

\* ------------------------------------------------------------ strings

undefined == <<>>

Some(s) == <<s>>

\* JavaScript truthiness of a string | undefined: undefined and "" are falsy.
Truthy(opt) == opt # undefined /\ opt[1] # <<>>

EmptyString == <<>>

\* String.prototype.trim over pieces: the only white space piece is " ".
RECURSIVE TrimLeft(_)
TrimLeft(s) ==
    IF s = <<>> THEN <<>>
    ELSE IF Head(s) = " " THEN TrimLeft(Tail(s)) ELSE s

RECURSIVE TrimRight(_)
TrimRight(s) ==
    IF s = <<>> THEN <<>>
    ELSE IF s[Len(s)] = " " THEN TrimRight(SubSeq(s, 1, Len(s) - 1)) ELSE s

Trim(s) == TrimRight(TrimLeft(s))

\* String.prototype.split(','): always at least one entry ("" gives [""]).
RECURSIVE SplitFrom(_, _)
SplitFrom(s, cur) ==
    IF s = <<>> THEN <<cur>>
    ELSE IF Head(s) = "," THEN <<cur>> \o SplitFrom(Tail(s), <<>>)
    ELSE SplitFrom(Tail(s), Append(cur, Head(s)))

Split(s) == SplitFrom(s, <<>>)

\* Array.prototype.includes
Includes(arr, x) == \E i \in 1..Len(arr) : arr[i] = x

\* Array.prototype.map(o => o.trim())
MapTrim(arr) == [i \in 1..Len(arr) |-> Trim(arr[i])]

\* Array.prototype.filter(o => o) / filter(Boolean): drops "" entries.
RECURSIVE FilterTruthy(_)
FilterTruthy(arr) ==
    IF arr = <<>> THEN <<>>
    ELSE IF Head(arr) # <<>> THEN <<Head(arr)>> \o FilterTruthy(Tail(arr))
    ELSE FilterTruthy(Tail(arr))

\* [...new Set(arr)]: first occurrences, in order.
RECURSIVE Dedup(_, _)
Dedup(arr, acc) ==
    IF arr = <<>> THEN acc
    ELSE IF Includes(acc, Head(arr)) THEN Dedup(Tail(arr), acc)
    ELSE Dedup(Tail(arr), Append(acc, Head(arr)))

\* ------------------------------------------------------------ origins

ProdOrigin == <<"https://", "feedin", ".up.railway.app">>

LocalhostOrigin == <<"http://", "localhost", ":", "4200">>

LoopbackOrigin == <<"http://", "127.0.0.1", ":", "4200">>

\* Origins no variant lists by name.
OtherRailwayOrigin == <<"https://", "evil", ".up.railway.app">>

LocalhostOtherPort == <<"http://", "localhost", ":", "3000">>

AExample == <<"https://", "a.example">>

BExample == <<"https://", "b.example">>

CExample == <<"https://", "c.example">>

WildcardString == <<"*">>

Digits == {"4200", "3000"}

\* /^https:\/\/.*\.up\.railway\.app$/
railwayPattern(o) ==
    /\ Len(o) >= 2
    /\ o[1] = "https://"
    /\ o[Len(o)] = ".up.railway.app"

\* /^http:\/\/localhost(:\d+)?$/
localhostPattern(o) ==
    \/ o = <<"http://", "localhost">>
    \/ /\ Len(o) = 4
       /\ SubSeq(o, 1, 3) = <<"http://", "localhost", ":">>
       /\ o[4] \in Digits

\* /^http:\/\/127\.0\.0\.1(:\d+)?$/
localhostIpPattern(o) ==
    \/ o = <<"http://", "127.0.0.1">>
    \/ /\ Len(o) = 4
       /\ SubSeq(o, 1, 3) = <<"http://", "127.0.0.1", ":">>
       /\ o[4] \in Digits

\* /^http:\/\/localhost:\d+$/ (main.minimal.ts: the port is required)
minimalLocalhostPattern(o) ==
    /\ Len(o) = 4
    /\ SubSeq(o, 1, 3) = <<"http://", "localhost", ":">>
    /\ o[4] \in Digits

\* /^http:\/\/127\.0\.0\.1:\d+$/
minimalLocalhostIpPattern(o) ==
    /\ Len(o) = 4
    /\ SubSeq(o, 1, 3) = <<"http://", "127.0.0.1", ":">>
    /\ o[4] \in Digits

\* The hard-coded defaults of main.ts (first bootstrap) and CorsMiddleware.
defaultOrigins == <<ProdOrigin, LocalhostOrigin, LoopbackOrigin>>

\* The hard-coded defaults of the no-db bootstrap (same set, other order).
defaultOriginsNoDb == <<LoopbackOrigin, LocalhostOrigin, ProdOrigin>>

\* ------------------------------------------------------------ policy

\* main.ts, first bootstrap: corsOrigin.split(',').forEach(o => ...push...)
RECURSIVE PushCustomOrigins(_, _)
PushCustomOrigins(entries, acc) ==
    IF entries = <<>> THEN acc
    ELSE LET trimmed == Trim(Head(entries))
         IN IF trimmed # <<>> /\ ~Includes(acc, trimmed)
            THEN PushCustomOrigins(Tail(entries), Append(acc, trimmed))
            ELSE PushCustomOrigins(Tail(entries), acc)

\* BuildAllowedOrigins with the configured list replacing the defaults
\* instead of being merged into them.
BuildAllowedOriginsReplacing(co) ==
    IF Truthy(co) /\ co # Some(WildcardString)
    THEN PushCustomOrigins(Split(co[1]), <<>>)
    ELSE defaultOrigins

\* main.ts, first bootstrap: the allowedOrigins array after the env merge.
BuildAllowedOrigins(co) ==
    IF Truthy(co) /\ co # Some(WildcardString)
    THEN PushCustomOrigins(Split(co[1]), defaultOrigins)
    ELSE defaultOrigins

\* main.minimal.ts: customOrigins (only built when corsOrigin is a list).
BuildCustomOrigins(co) ==
    IF co # Some(WildcardString) /\ Truthy(co)
    THEN MapTrim(Split(co[1]))
    ELSE <<>>

\* no-db bootstrap: process.env.CORS_ORIGIN?.trim()
TrimOptional(v) == IF v = undefined THEN undefined ELSE Some(Trim(v[1]))

\* no-db bootstrap: the origin option, a function in wildcard mode and an
\* array otherwise.
BuildNoDbOrigins(co) ==
    IF Truthy(co)
    THEN IF co = Some(WildcardString)
         THEN [kind |-> "function", list |-> <<>>]
         ELSE [kind |-> "array",
               list |-> Dedup(defaultOriginsNoDb \o
                              FilterTruthy(MapTrim(Split(co[1]))), <<>>)]
    ELSE [kind |-> "array", list |-> defaultOriginsNoDb]

\* ------------------------------------------------------------ decisions

\* Result of callback(err, allow).
Callback(err, allow) == [calls |-> 1, err |-> err, allow |-> allow]

NoCallback == [calls |-> 0, err |-> "null", allow |-> FALSE]

\* originCallback reporting a refused origin as an error.
originCallbackRaising(origin, co, ao) ==
    IF ~Truthy(origin) THEN Callback("null", TRUE)
    ELSE IF co = Some(WildcardString) THEN Callback("null", TRUE)
    ELSE IF Includes(ao, origin[1]) THEN Callback("null", TRUE)
    ELSE Callback("Error", FALSE)

\* originCallback looking the origin up in the static defaults only.
originCallbackDefaultsOnly(origin, co, ao) ==
    IF ~Truthy(origin) THEN Callback("null", TRUE)
    ELSE IF co = Some(WildcardString) THEN Callback("null", TRUE)
    ELSE IF Includes(defaultOrigins, origin[1]) THEN Callback("null", TRUE)
    ELSE Callback("null", FALSE)

\* main.ts, first bootstrap: originCallback
originCallback(origin, co, ao) ==
    IF ~Truthy(origin) THEN Callback("null", TRUE)
    ELSE IF co = Some(WildcardString) THEN Callback("null", TRUE)
    ELSE IF Includes(ao, origin[1]) THEN Callback("null", TRUE)
    ELSE Callback("null", FALSE)

\* shouldAllow kept across requests: once a response carried the allow-origin
\* header, every later origin is allowed.
shouldAllowSticky(origin, co, ao) ==
    IF "Access-Control-Allow-Origin" \in DOMAIN res.headers THEN TRUE
    ELSE IF ~Truthy(origin) THEN TRUE
    ELSE IF co = Some(WildcardString) THEN TRUE
    ELSE IF Includes(ao, origin[1]) THEN TRUE
    ELSE FALSE

\* main.ts, first bootstrap, explicit middleware: shouldAllow
shouldAllow(origin, co, ao) ==
    IF ~Truthy(origin) THEN TRUE
    ELSE IF co = Some(WildcardString) THEN TRUE
    ELSE IF Includes(ao, origin[1]) THEN TRUE
    ELSE FALSE

\* main.ts, second bootstrap: validateOrigin (nothing in the try block
\* throws: split is only applied to a truthy string).
validateOrigin(origin, co) ==
    IF ~Truthy(origin) THEN Callback("null", TRUE)
    ELSE IF co = Some(WildcardString) THEN Callback("null", TRUE)
    ELSE IF railwayPattern(origin[1]) THEN Callback("null", TRUE)
    ELSE IF localhostPattern(origin[1]) \/ localhostIpPattern(origin[1])
         THEN Callback("null", TRUE)
    ELSE IF Truthy(co) /\
            Includes(FilterTruthy(MapTrim(Split(co[1]))), origin[1])
         THEN Callback("null", TRUE)
    ELSE Callback("null", FALSE)

\* main.minimal.ts: the origin function installed when corsOrigin is a list
\* (customOrigins) or unset (custom is then the empty array).
minimalOriginFunction(origin, co, custom) ==
    IF Truthy(co)
    THEN IF \/ ~Truthy(origin)
            \/ Includes(custom, origin[1])
            \/ railwayPattern(origin[1])
            \/ minimalLocalhostPattern(origin[1])
            \/ minimalLocalhostIpPattern(origin[1])
         THEN Callback("null", TRUE)
         ELSE Callback("null", FALSE)
    ELSE IF \/ ~Truthy(origin)
            \/ minimalLocalhostPattern(origin[1])
            \/ minimalLocalhostIpPattern(origin[1])
            \/ railwayPattern(origin[1])
         THEN Callback("null", TRUE)
         ELSE Callback("null", FALSE)

\* no-db bootstrap: the wildcard origin function.
noDbOriginFunction(origin) == Callback("null", TRUE)

\* ------------------------------------------------------------ responses

ACAO == "Access-Control-Allow-Origin"

ACAC == "Access-Control-Allow-Credentials"

ACAM == "Access-Control-Allow-Methods"

ACAH == "Access-Control-Allow-Headers"

ACMA == "Access-Control-Max-Age"

ACEH == "Access-Control-Expose-Headers"

CorsHeaderNames == {ACAO, ACAC, ACAM, ACAH, ACMA}

\* A response nothing was written to: no header, no status, not ended.
NewResponse ==
    [headers |-> <<>>, status |-> 0, ended |-> FALSE, body |-> <<>>,
     nextCalls |-> 0, nextErr |-> "null", log |-> <<>>]

\* res.setHeader(name, value)
SetHeader(r, name, value) ==
    [r EXCEPT !.headers = (name :> value) @@ @,
              !.log = Append(@, "setHeader")]

\* res.status(code).send() / res.status(code).end(): no body is written.
EndWithStatus(r, code) ==
    [r EXCEPT !.status = code, !.ended = TRUE,
              !.log = @ \o <<"status", "end">>]

\* next(err)
CallNext(r, err) ==
    [r EXCEPT !.nextCalls = @ + 1, !.nextErr = err,
              !.log = Append(@, "next")]

HasHeader(r, name) == name \in DOMAIN r.headers

\* ------------------------------------------------------------ handlers

CredentialsTrue == <<"true">>

MaxAgeValue == <<"86400">>

\* main.ts, explicit middleware: 'GET, HEAD, PUT, PATCH, POST, DELETE, OPTIONS'
ExplicitAllowMethods ==
    <<"GET", "HEAD", "PUT", "PATCH", "POST", "DELETE", "OPTIONS">>

\* main.ts, explicit middleware: the Access-Control-Allow-Headers value.
ExplicitAllowHeaders ==
    <<"Origin", "X-Requested-With", "Content-Type", "Accept",
      "Authorization", "X-CSRF-Token">>

\* ExplicitCorsResponse without the return of the preflight branch: the
\* request is ended and still forwarded.
ExplicitCorsResponseFallThrough(origin, method, co, ao) ==
    LET allow == shouldAllow(origin, co, ao)
        r1 == IF allow /\ Truthy(origin)
              THEN SetHeader(SetHeader(SetHeader(SetHeader(SetHeader(
                       NewResponse,
                       ACAO, origin[1]),
                       ACAC, CredentialsTrue),
                       ACAM, ExplicitAllowMethods),
                       ACAH, ExplicitAllowHeaders),
                       ACMA, MaxAgeValue)
              ELSE NewResponse
    IN IF method = "OPTIONS"
       THEN CallNext(EndWithStatus(r1, 204), "null")
       ELSE CallNext(r1, "null")

\* main.ts, first bootstrap: the middleware registered with app.use.
ExplicitCorsResponse(origin, method, co, ao) ==
    LET allow == shouldAllow(origin, co, ao)
        r1 == IF allow /\ Truthy(origin)
              THEN SetHeader(SetHeader(SetHeader(SetHeader(SetHeader(
                       NewResponse,
                       ACAO, origin[1]),
                       ACAC, CredentialsTrue),
                       ACAM, ExplicitAllowMethods),
                       ACAH, ExplicitAllowHeaders),
                       ACMA, MaxAgeValue)
              ELSE NewResponse
    IN IF method = "OPTIONS"
       THEN EndWithStatus(r1, 204)
       ELSE CallNext(r1, "null")

\* CorsMiddlewareAllowedOrigin answering the literal wildcard in wildcard
\* mode, whatever the request origin.
CorsMiddlewareAllowedOriginLiteral(origin, envValue) ==
    LET co == TrimOptional(envValue)
    IN IF co = Some(WildcardString)
       THEN WildcardString
       ELSE IF Truthy(co)
       THEN LET allowed == MapTrim(Split(co[1]))
            IN IF Truthy(origin) /\ Includes(allowed, origin[1])
               THEN origin[1]
               ELSE IF Truthy(origin) /\ Includes(defaultOrigins, origin[1])
               THEN origin[1]
               ELSE IF Len(allowed) > 0
               THEN allowed[1]
               ELSE IF Truthy(origin) THEN origin[1] ELSE ProdOrigin
       ELSE IF Truthy(origin) /\ Includes(defaultOrigins, origin[1])
       THEN origin[1]
       ELSE IF Truthy(origin) THEN origin[1] ELSE ProdOrigin

\* CorsMiddleware.use: the value of allowedOrigin, from the request origin
\* and the value of process.env.CORS_ORIGIN at the time of the request.
CorsMiddlewareAllowedOrigin(origin, envValue) ==
    LET co == TrimOptional(envValue)
    IN IF co = Some(WildcardString)
       THEN IF Truthy(origin) THEN origin[1] ELSE WildcardString
       ELSE IF Truthy(co)
       THEN LET allowed == MapTrim(Split(co[1]))
            IN IF Truthy(origin) /\ Includes(allowed, origin[1])
               THEN origin[1]
               ELSE IF Truthy(origin) /\ Includes(defaultOrigins, origin[1])
               THEN origin[1]
               ELSE IF Len(allowed) > 0
               THEN allowed[1]
               ELSE IF Truthy(origin) THEN origin[1] ELSE ProdOrigin
       ELSE IF Truthy(origin) /\ Includes(defaultOrigins, origin[1])
       THEN origin[1]
       ELSE IF Truthy(origin) THEN origin[1] ELSE ProdOrigin

\* CorsMiddleware.use: 'Content-Type, Authorization, X-CSRF-Token, ...'
CorsMiddlewareAllowHeaders ==
    <<"Content-Type", "Authorization", "X-CSRF-Token", "Accept", "Origin",
      "X-Requested-With">>

\* CorsMiddleware.use writing the headers in the preflight branch only.
CorsMiddlewareResponsePreflightOnly(origin, method, envValue) ==
    LET r1 == SetHeader(SetHeader(SetHeader(SetHeader(SetHeader(
                  NewResponse,
                  ACAO, CorsMiddlewareAllowedOrigin(origin, envValue)),
                  ACAM, ExplicitAllowMethods),
                  ACAH, CorsMiddlewareAllowHeaders),
                  ACAC, CredentialsTrue),
                  ACMA, MaxAgeValue)
    IN IF method = "OPTIONS"
       THEN EndWithStatus(r1, 204)
       ELSE CallNext(NewResponse, "null")

\* CorsMiddleware.use
CorsMiddlewareResponse(origin, method, envValue) ==
    LET r1 == SetHeader(SetHeader(SetHeader(SetHeader(SetHeader(
                  NewResponse,
                  ACAO, CorsMiddlewareAllowedOrigin(origin, envValue)),
                  ACAM, ExplicitAllowMethods),
                  ACAH, CorsMiddlewareAllowHeaders),
                  ACAC, CredentialsTrue),
                  ACMA, MaxAgeValue)
    IN IF method = "OPTIONS"
       THEN EndWithStatus(r1, 204)
       ELSE CallNext(r1, "null")

\* ------------------------------------------------------------ enableCors

\* The options each bootstrap hands to app.enableCors (an absent option is
\* the empty value).
EnableCorsOptionsMain ==
    [methods |-> <<"GET", "HEAD", "PUT", "PATCH", "POST", "DELETE", "OPTIONS">>,
     credentials |-> TRUE,
     allowedHeaders |-> <<"Content-Type", "Accept", "Authorization",
                          "X-CSRF-Token", "X-Requested-With", "Origin">>,
     exposedHeaders |-> <<"Authorization", "Set-Cookie">>,
     preflightContinue |-> FALSE,
     optionsSuccessStatus |-> 204,
     maxAge |-> <<"86400">>]

EnableCorsOptionsSecond ==
    [methods |-> <<"GET", "HEAD", "PUT", "PATCH", "POST", "DELETE", "OPTIONS">>,
     credentials |-> TRUE,
     allowedHeaders |-> <<"Content-Type", "Authorization", "X-Requested-With",
                          "Accept", "Origin", "Cookie">>,
     exposedHeaders |-> <<"Authorization", "Set-Cookie">>,
     preflightContinue |-> FALSE,
     optionsSuccessStatus |-> 204,
     maxAge |-> <<"86400">>]

EnableCorsOptionsMinimal ==
    [methods |-> <<"GET", "HEAD", "PUT", "PATCH", "POST", "DELETE", "OPTIONS">>,
     credentials |-> TRUE,
     allowedHeaders |-> <<"Content-Type", "Authorization", "X-Requested-With",
                          "Accept">>,
     exposedHeaders |-> <<"Authorization">>,
     preflightContinue |-> FALSE,
     optionsSuccessStatus |-> 204,
     maxAge |-> <<>>]

EnableCorsOptionsNoDb ==
    [methods |-> <<"GET", "HEAD", "PUT", "PATCH", "POST", "DELETE", "OPTIONS">>,
     credentials |-> TRUE,
     allowedHeaders |-> <<"Content-Type", "Authorization", "X-CSRF-Token",
                          "Accept", "Origin", "X-Requested-With">>,
     exposedHeaders |-> <<"Set-Cookie">>,
     preflightContinue |-> FALSE,
     optionsSuccessStatus |-> 204,
     maxAge |-> <<"86400">>]

\* The origin option of each bootstrap: true, a function, or an array.
OriginOptionTrue == [kind |-> "true", list |-> <<>>]

OriginOptionFunction == [kind |-> "function", list |-> <<>>]

\* origin: corsOrigin === '*' ? true : originCallback   (and validateOrigin,
\* and the functions of main.minimal.ts)
OriginOptionOf(co) ==
    IF co = Some(WildcardString) THEN OriginOptionTrue ELSE OriginOptionFunction

\* A header the middleware installed by enableCors sets only when its value
\* is not empty.
SetHeaderIf(r, name, value) ==
    IF value # <<>> THEN SetHeader(r, name, value) ELSE r

\* What the middleware installed by app.enableCors(options) (the cors
\* package of express) does with a request once the origin option is
\* resolved to true or to an array: the origin is reflected when allowed,
\* the methods, headers and max-age are added on preflights only.
EnableCorsApply(opts, originOpt, origin, method) ==
    LET isAllowed == IF originOpt.kind = "array"
                     THEN origin # undefined /\ Includes(originOpt.list, origin[1])
                     ELSE TRUE
        r1 == IF isAllowed /\ Truthy(origin)
              THEN SetHeader(NewResponse, ACAO, origin[1])
              ELSE NewResponse
        r2 == IF opts.credentials THEN SetHeader(r1, ACAC, CredentialsTrue) ELSE r1
    IN IF method = "OPTIONS"
       THEN LET r3 == SetHeaderIf(r2, ACAM, opts.methods)
                r4 == SetHeaderIf(r3, ACAH, opts.allowedHeaders)
                r5 == SetHeaderIf(r4, ACMA, opts.maxAge)
                r6 == SetHeaderIf(r5, ACEH, opts.exposedHeaders)
            IN IF opts.preflightContinue
               THEN CallNext(r6, "null")
               ELSE EndWithStatus(r6, opts.optionsSuccessStatus)
       ELSE CallNext(SetHeaderIf(r2, ACEH, opts.exposedHeaders), "null")

\* The middleware installed by app.enableCors(options): a function origin
\* option is asked first, and a refusal forwards the request untouched.
EnableCorsResponse(opts, originOpt, cbr, origin, method) ==
    IF originOpt.kind = "function"
    THEN IF cbr.err # "null" \/ ~cbr.allow
         THEN CallNext(NewResponse, cbr.err)
         ELSE EnableCorsApply(opts, OriginOptionTrue, origin, method)
    ELSE EnableCorsApply(opts, originOpt, origin, method)

\* Number of requests whose outcome the history keeps.
MaxHistory == 3

\* The CORS_ORIGIN values of the environment.
EnvValues ==
    { undefined,
      Some(EmptyString),
      Some(WildcardString),
      Some(<<" ">> \o WildcardString \o <<" ">>),
      Some(AExample),
      Some(AExample \o <<",">> \o BExample),
      Some(<<" ">> \o AExample \o <<",", " ", ",">> \o AExample),
      Some(<<",">> \o BExample),
      Some(WildcardString \o <<",">> \o AExample) }

\* The Origin header values of a request.
Origins ==
    { undefined,
      Some(EmptyString),
      Some(ProdOrigin),
      Some(LocalhostOrigin),
      Some(LoopbackOrigin),
      Some(OtherRailwayOrigin),
      Some(LocalhostOtherPort),
      Some(AExample),
      Some(CExample) }

Methods == {"GET", "POST", "OPTIONS"}

\* The CORS_ORIGIN values the environment can be changed to while the
\* process runs.
EnvChanges == {undefined, Some(WildcardString), Some(AExample)}

NoRequest ==
    [handler |-> "none", origin |-> undefined, method |-> "GET",
     corsOrigin |-> undefined]

\* A request, with the CORS_ORIGIN value its handler decided on: the one
\* captured by bootstrap, or the one CorsMiddleware.use read.
Request(handler, origin, method, co) ==
    [handler |-> handler, origin |-> origin, method |-> method,
     corsOrigin |-> co]

Init ==
    /\ phase = "boot"
    /\ env \in EnvValues
    /\ corsOrigin = undefined
    /\ allowedOrigins = defaultOrigins
    /\ customOrigins = <<>>
    /\ corsOriginNoDb = undefined
    /\ allowedOriginsNoDb = [kind |-> "array", list |-> defaultOriginsNoDb]
    /\ req = NoRequest
    /\ res = NewResponse
    /\ cb = NoCallback
    /\ history = <<>>

\* bootstrap(): the CORS configuration of every bootstrap variant, read from
\* the environment once.
Bootstrap ==
    /\ phase = "boot"
    /\ phase' = "serving"
    /\ corsOrigin' = env
    /\ allowedOrigins' = BuildAllowedOrigins(env)
    /\ customOrigins' = BuildCustomOrigins(env)
    /\ corsOriginNoDb' = TrimOptional(env)
    /\ allowedOriginsNoDb' = BuildNoDbOrigins(TrimOptional(env))
    /\ UNCHANGED <<env, req, res, cb>>

\* The environment of the process changes.
SetEnv(v) ==
    /\ phase = "serving"
    /\ v # env
    /\ env' = v
    /\ UNCHANGED <<phase, policy, req, res, cb>>

\* main.ts, first bootstrap: a request reaches the explicit middleware.
ExplicitCorsMiddleware(origin, method) ==
    /\ phase = "serving"
    /\ req' = Request("explicit", origin, method, corsOrigin)
    /\ res' = ExplicitCorsResponse(origin, method, corsOrigin, allowedOrigins)
    /\ cb' = NoCallback
    /\ UNCHANGED <<phase, env, policy>>

\* A request reaches CorsMiddleware.use.
CorsMiddlewareUse(origin, method) ==
    /\ phase = "serving"
    /\ req' = Request("CorsMiddleware", origin, method, env)
    /\ res' = CorsMiddlewareResponse(origin, method, env)
    /\ cb' = NoCallback
    /\ UNCHANGED <<phase, env, policy>>

\* main.ts, first bootstrap: a request reaches the middleware of enableCors.
EnableCorsMain(origin, method) ==
    /\ phase = "serving"
    /\ LET opt == OriginOptionOf(corsOrigin)
           cbr == IF opt.kind = "function"
                  THEN originCallback(origin, corsOrigin, allowedOrigins)
                  ELSE NoCallback
       IN /\ cb' = cbr
          /\ res' = EnableCorsResponse(EnableCorsOptionsMain, opt, cbr,
                                       origin, method)
    /\ req' = Request("enableCorsMain", origin, method, corsOrigin)
    /\ UNCHANGED <<phase, env, policy>>

\* main.ts, second bootstrap: a request reaches the middleware of enableCors.
EnableCorsSecond(origin, method) ==
    /\ phase = "serving"
    /\ LET opt == OriginOptionOf(corsOrigin)
           cbr == IF opt.kind = "function"
                  THEN validateOrigin(origin, corsOrigin)
                  ELSE NoCallback
       IN /\ cb' = cbr
          /\ res' = EnableCorsResponse(EnableCorsOptionsSecond, opt, cbr,
                                       origin, method)
    /\ req' = Request("enableCorsSecond", origin, method, corsOrigin)
    /\ UNCHANGED <<phase, env, policy>>

\* main.minimal.ts: a request reaches the middleware of enableCors.
EnableCorsMinimal(origin, method) ==
    /\ phase = "serving"
    /\ LET opt == OriginOptionOf(corsOrigin)
           cbr == IF opt.kind = "function"
                  THEN minimalOriginFunction(origin, corsOrigin, customOrigins)
                  ELSE NoCallback
       IN /\ cb' = cbr
          /\ res' = EnableCorsResponse(EnableCorsOptionsMinimal, opt, cbr,
                                       origin, method)
    /\ req' = Request("enableCorsMinimal", origin, method, corsOrigin)
    /\ UNCHANGED <<phase, env, policy>>

\* no-db bootstrap: a request reaches the middleware of enableCors.
EnableCorsNoDb(origin, method) ==
    /\ phase = "serving"
    /\ LET opt == allowedOriginsNoDb
           cbr == IF opt.kind = "function"
                  THEN noDbOriginFunction(origin)
                  ELSE NoCallback
       IN /\ cb' = cbr
          /\ res' = EnableCorsResponse(EnableCorsOptionsNoDb, opt, cbr,
                                       origin, method)
    /\ req' = Request("enableCorsNoDb", origin, method, corsOriginNoDb)
    /\ UNCHANGED <<phase, env, policy>>

\* One request, handled by one of the CORS layers.
Serve(origin, method) ==
    \/ ExplicitCorsMiddleware(origin, method)
    \/ CorsMiddlewareUse(origin, method)
    \/ EnableCorsMain(origin, method)
    \/ EnableCorsSecond(origin, method)
    \/ EnableCorsMinimal(origin, method)
    \/ EnableCorsNoDb(origin, method)

Next ==
    \/ Bootstrap /\ UNCHANGED history
    \/ \E v \in EnvChanges : SetEnv(v) /\ UNCHANGED history
    \/ \E origin \in Origins, method \in Methods :
           Serve(origin, method) /\ UNCHANGED history

Spec == Init /\ [][Next]_vars

\* ------------------------------------------------------------ history

\* The origins, methods and CORS_ORIGIN values of the requests whose
\* outcomes are compared with one another.
HistOrigins == {Some(ProdOrigin), Some(CExample)}

HistMethods == {"GET", "OPTIONS"}

HistEnvValues == {undefined, Some(WildcardString), Some(AExample)}

InitHist == Init /\ env \in HistEnvValues

\* The outcome of the request just handled is appended to the history.
Remember ==
    /\ Len(history) < MaxHistory
    /\ history' = Append(history,
                         [req |-> req', headers |-> res'.headers, cb |-> cb'])

NextHist ==
    \/ Bootstrap /\ UNCHANGED history
    \/ \E origin \in HistOrigins, method \in HistMethods :
           /\ \/ ExplicitCorsMiddleware(origin, method)
              \/ CorsMiddlewareUse(origin, method)
              \/ EnableCorsMain(origin, method)
           /\ Remember

SpecHist == InitHist /\ [][NextHist]_vars

\* ------------------------------------------------------------ properties

\* A request has been handled.
Served == phase = "serving" /\ req.handler # "none"

\* The response grants the request origin: Access-Control-Allow-Origin is
\* set to the origin of the request.
Echoed ==
    /\ Truthy(req.origin)
    /\ HasHeader(res, ACAO)
    /\ res.headers[ACAO] = req.origin[1]

\* The elements of an array.
Elements(arr) == {arr[i] : i \in 1..Len(arr)}

\* The effective allow-set of a CORS_ORIGIN value: the static defaults
\* united with the trimmed, non-empty entries of the configured list.
EffectiveAllowSet(co) ==
    Elements(defaultOrigins) \cup
    (IF Truthy(co) THEN Elements(FilterTruthy(MapTrim(Split(co[1])))) ELSE {})

Resolvers == {"explicit", "CorsMiddleware"}

\* C2: in AllowList mode a request whose declared origin is outside the
\* effective allow-set gets no Access-Control-Allow-Origin header.
C2_OutsideAllowSetNoHeader ==
    (/\ Served
     /\ req.handler \in Resolvers
     /\ req.corsOrigin # Some(WildcardString)
     /\ Truthy(req.origin)
     /\ req.origin[1] \notin EffectiveAllowSet(req.corsOrigin))
    => ~HasHeader(res, ACAO)

\* C3: a request with no declared origin is let through (the callback grants
\* it, the resolver forwards or ends it) and gets no
\* Access-Control-Allow-Origin header, under any CORS_ORIGIN value.
C3_NoOriginNoHeader ==
    (Served /\ req.origin = undefined)
    => /\ ~HasHeader(res, ACAO)
       /\ cb.calls = 1 => (cb.err = "null" /\ cb.allow)

\* C4: no response carries Access-Control-Allow-Origin "*" together with
\* Access-Control-Allow-Credentials "true".
C4_NoWildcardWithCredentials ==
    Served =>
        ~(/\ HasHeader(res, ACAO)
          /\ res.headers[ACAO] = WildcardString
          /\ HasHeader(res, ACAC)
          /\ res.headers[ACAC] = CredentialsTrue)

\* Every setHeader call of the log comes before the status or next call.
HeadersFirst(log) ==
    \A i \in 1..Len(log) :
        log[i] = "setHeader" => \A j \in 1..(i - 1) : log[j] = "setHeader"

\* C5: a resolver ends every OPTIONS request with status 204 and an empty
\* body after setting the headers and never calls next; for any other method
\* it calls next exactly once, after the headers, and sends no status.
C5_PreflightShortCircuit ==
    (Served /\ req.handler \in Resolvers)
    => /\ HeadersFirst(res.log)
       /\ req.method = "OPTIONS" =>
              /\ res.status = 204
              /\ res.ended
              /\ res.body = <<>>
              /\ res.nextCalls = 0
       /\ req.method # "OPTIONS" =>
              /\ res.nextCalls = 1
              /\ res.nextErr = "null"
              /\ res.status = 0
              /\ ~res.ended
              /\ res.log[Len(res.log)] = "next"

\* A preflight from an allowed origin: five headers, then 204, no next.
C5_Witness ==
    /\ Served
    /\ req.handler = "explicit"
    /\ req.method = "OPTIONS"
    /\ Echoed
    /\ res.log = <<"setHeader", "setHeader", "setHeader", "setHeader",
                   "setHeader", "status", "end">>
    /\ res.nextCalls = 0

ListLayers ==
    {"explicit", "enableCorsMain", "enableCorsSecond", "enableCorsMinimal"}

\* C7: with CORS_ORIGIN unset a declared origin is allowed if and only if
\* it is one of the hard-coded static defaults.
C7_UnsetMeansStaticDefaultsOnly ==
    (/\ Served
     /\ req.handler \in ListLayers
     /\ req.corsOrigin = undefined
     /\ Truthy(req.origin))
    => (Echoed <=> req.origin[1] \in Elements(defaultOrigins))

RequiredAllowHeaders ==
    {"Content-Type", "Authorization", "Accept", "X-CSRF-Token",
     "X-Requested-With", "Origin"}

RequiredAllowMethods ==
    {"GET", "HEAD", "PUT", "PATCH", "POST", "DELETE", "OPTIONS"}

\* C8: every allowed decision for a declared origin carries the five CORS
\* headers with their fixed values, preflight or not.
C8_FiveHeadersOnAllow ==
    (/\ Served
     /\ req.handler \in {"explicit", "enableCorsSecond", "enableCorsMinimal"}
     /\ Echoed)
    => /\ CorsHeaderNames \subseteq DOMAIN res.headers
       /\ res.headers[ACAC] = CredentialsTrue
       /\ Elements(res.headers[ACAM]) = RequiredAllowMethods
       /\ RequiredAllowHeaders \subseteq Elements(res.headers[ACAH])
       /\ res.headers[ACMA] = MaxAgeValue

\* The CORS headers each resolver gives a request from origin o in the
\* current state.
DecisionFor(o) ==
    [explicit |->
         ExplicitCorsResponse(o, "GET", corsOrigin, allowedOrigins).headers,
     CorsMiddleware |-> CorsMiddlewareResponse(o, "GET", env).headers]

\* C9: once the process serves, no step changes the origin policy or the
\* decision a resolver takes for an origin, a change of the environment
\* included.
C9_PolicyFrozenAfterStartup ==
    [][phase = "serving" =>
          /\ policy' = policy
          /\ \A o \in Origins : DecisionFor(o)' = DecisionFor(o)]_vars

\* The allow-origin header of a recorded outcome (empty when not set).
AllowOriginOf(h) ==
    IF ACAO \in DOMAIN h.headers THEN Some(h.headers[ACAO]) ELSE undefined

\* C10: the decision is a function of the origin and the policy alone: any
\* two handled requests with the same origin under the same policy got the
\* same decision from the same layer (the callback answer and the
\* allow-origin header) and, from a resolver, the same CORS headers, whatever
\* their methods and whatever was handled in between.
C10_SameInputsSameDecision ==
    \A i, j \in 1..Len(history) :
        (/\ history[i].req.handler = history[j].req.handler
         /\ history[i].req.origin = history[j].req.origin
         /\ history[i].req.corsOrigin = history[j].req.corsOrigin)
        => /\ history[i].cb = history[j].cb
           /\ AllowOriginOf(history[i]) = AllowOriginOf(history[j])
           /\ history[i].req.handler \in Resolvers =>
                  history[i].headers = history[j].headers

\* An allowed origin asks twice, by GET and by preflight, with a blocked
\* request of another origin in between.
C10_Witness ==
    /\ Len(history) = 3
    /\ history[1].req.handler = "explicit"
    /\ history[3].req.handler = "explicit"
    /\ history[1].req.origin = Some(ProdOrigin)
    /\ history[3].req.origin = Some(ProdOrigin)
    /\ history[1].req.method = "GET"
    /\ history[3].req.method = "OPTIONS"
    /\ history[2].req.handler = "explicit"
    /\ history[2].req.origin = Some(CExample)
    /\ ACAO \notin DOMAIN history[2].headers
    /\ history[1].headers[ACAO] = ProdOrigin
    /\ history[3].headers = history[1].headers

\* The CORS_ORIGIN value of the environment a handled request was decided
\* on, untrimmed: the one CorsMiddleware.use read, or the one bootstrap read.
RawCorsOrigin ==
    IF req.handler = "CorsMiddleware" THEN req.corsOrigin ELSE corsOrigin

\* The layers that decide by exact membership in an allow-list.
ExactLayers == {"explicit", "enableCorsMain", "CorsMiddleware", "enableCorsNoDb"}

\* C11: the policy is in AllowAll mode if and only if CORS_ORIGIN is exactly
\* "*": for every other value (unset, empty, "*" with white space around it,
\* a list with "*" as an entry) a declared origin outside the effective
\* allow-set is not allowed.
C11_AllowAllIffExactlyWildcard ==
    (Served /\ req.handler \in ExactLayers /\ Truthy(req.origin))
    => /\ RawCorsOrigin = Some(WildcardString) => Echoed
       /\ (/\ RawCorsOrigin # Some(WildcardString)
           /\ req.origin[1] \notin EffectiveAllowSet(RawCorsOrigin))
          => ~Echoed

\* No two positions of an array hold the same element.
NoDuplicates(arr) ==
    \A i, j \in 1..Len(arr) : arr[i] = arr[j] => i = j

\* The trimmed, non-empty entries of a CORS_ORIGIN list value.
ConfiguredEntries(co) ==
    IF Truthy(co) /\ co # Some(WildcardString)
    THEN Elements(FilterTruthy(MapTrim(Split(co[1]))))
    ELSE {}

\* C12: the allow-lists bootstrap builds from CORS_ORIGIN hold no empty
\* string and no duplicate, and hold every trimmed non-empty entry of the
\* configured list; the ones united with the defaults are exactly the
\* effective allow-set.
C12_AllowListTrimmedFilteredDeduplicated ==
    phase = "serving" =>
        /\ EmptyString \notin Elements(allowedOrigins)
        /\ NoDuplicates(allowedOrigins)
        /\ Elements(allowedOrigins) =
               Elements(defaultOrigins) \cup ConfiguredEntries(corsOrigin)
        /\ allowedOriginsNoDb.kind = "array" =>
               /\ EmptyString \notin Elements(allowedOriginsNoDb.list)
               /\ NoDuplicates(allowedOriginsNoDb.list)
               /\ Elements(allowedOriginsNoDb.list) =
                      Elements(defaultOrigins) \cup
                      ConfiguredEntries(corsOrigin)
        /\ EmptyString \notin Elements(customOrigins)
        /\ NoDuplicates(customOrigins)
        /\ ConfiguredEntries(corsOrigin) \subseteq Elements(customOrigins)

\* The layers whose origin decision is an origin callback.
CallbackLayers == {"enableCorsMain", "enableCorsSecond", "enableCorsMinimal"}

\* C13: no layer reports an error for any origin: every origin callback
\* is answered with a null error, a refused origin is answered allow = false
\* and gets no allow-origin header, next is never called with an error, and
\* a request that is not a preflight is forwarded once, refused or not,
\* without a status being written.
C13_RefusalIsNotAnError ==
    Served =>
        /\ cb.err = "null"
        /\ res.nextErr = "null"
        /\ (req.handler \in CallbackLayers /\ cb.calls = 1 /\ ~cb.allow)
           => /\ ~HasHeader(res, ACAO)
              /\ res.nextCalls = 1
              /\ res.status = 0
        /\ req.method # "OPTIONS" =>
               /\ res.nextCalls = 1
               /\ res.status = 0
               /\ ~res.ended

\* An origin no list names asks by GET: the callback answers (null, false)
\* and the request goes on without CORS headers and without status.
C13_Witness ==
    /\ Served
    /\ req.handler = "enableCorsMain"
    /\ req.origin = Some(CExample)
    /\ req.method = "GET"
    /\ cb = [calls |-> 1, err |-> "null", allow |-> FALSE]
    /\ res.headers = <<>>
    /\ res.nextCalls = 1
    /\ res.nextErr = "null"
    /\ res.status = 0

\* ------------------------------------------------------------ downstream

\* The stages after a resolver. The route handlers and AllExceptionsFilter
\* (./common/filters/http-exception.filter, registered by main.ts) are
\* modelled from the specification: a handler either answers or throws, and
\* the filter runs the resolver of the request again before it writes the
\* status and body of the error response.

\* The headers the resolver that handled rq sets for it.
ResolveHeaders(rq, ao) ==
    IF rq.handler = "explicit"
    THEN ExplicitCorsResponse(rq.origin, rq.method, rq.corsOrigin, ao).headers
    ELSE CorsMiddlewareResponse(rq.origin, rq.method, rq.corsOrigin).headers

\* A route handler answers: status and body are written, headers are kept.
RouteHandlerResponse(r) ==
    [r EXCEPT !.status = 200, !.ended = TRUE, !.body = <<"payload">>,
              !.log = @ \o <<"status", "end">>]

\* AllExceptionsFilter.catch: the resolver's headers, then the error status
\* and body.
AllExceptionsFilterResponse(r, hdrs) ==
    [r EXCEPT !.headers = hdrs @@ @, !.status = 500, !.ended = TRUE,
              !.body = <<"error">>,
              !.log = @ \o <<"setHeader", "status", "end">>]

\* The request was forwarded by a resolver and is not answered yet.
Forwarded ==
    /\ phase = "serving"
    /\ req.handler \in {"explicit", "CorsMiddleware"}
    /\ res.nextCalls = 1
    /\ ~res.ended

\* The stage after the resolver completes normally.
DownstreamCompletes ==
    /\ Forwarded
    /\ res' = RouteHandlerResponse(res)
    /\ UNCHANGED <<phase, env, policy, req, cb>>

\* The stage after the resolver throws; the exception filter answers.
DownstreamThrows ==
    /\ Forwarded
    /\ res' = AllExceptionsFilterResponse(res,
                                          ResolveHeaders(req, allowedOrigins))
    /\ UNCHANGED <<phase, env, policy, req, cb>>

NextDown ==
    \/ Bootstrap /\ UNCHANGED history
    \/ \E origin \in Origins, method \in Methods :
           /\ \/ ExplicitCorsMiddleware(origin, method)
              \/ CorsMiddlewareUse(origin, method)
           /\ UNCHANGED history
    \/ DownstreamCompletes /\ UNCHANGED history
    \/ DownstreamThrows /\ UNCHANGED history

SpecDown == Init /\ [][NextDown]_vars

\* The request declares an origin its resolver's CORS_ORIGIN value allows.
AllowedDeclaredOrigin ==
    /\ Truthy(req.origin)
    /\ \/ req.corsOrigin = Some(WildcardString)
       \/ req.origin[1] \in EffectiveAllowSet(req.corsOrigin)

\* Every call of next in the log comes after setHeader calls only, and after
\* at least one.
HeadersBeforeNext(log) ==
    \A i \in 1..Len(log) :
        log[i] = "next" =>
            /\ i > 1
            /\ \A j \in 1..(i - 1) : log[j] = "setHeader"

\* C14: for a request of an allowed declared origin the resolver has set the
\* CORS headers before it calls next, and the response carries
\* Access-Control-Allow-Origin equal to the request origin when next is
\* called, after the stage behind it answered, and after that stage threw
\* and the exception filter wrote the error response.
C14_HeadersSurviveDownstream ==
    (Served /\ req.handler \in Resolvers /\ AllowedDeclaredOrigin)
    => /\ Echoed
       /\ HasHeader(res, ACAC)
       /\ HeadersBeforeNext(res.log)
       /\ res.ended => res.status \in {204, 200, 500}

\* The stage behind the explicit middleware threw for a request of a
\* configured origin: the error response carries the origin.
C14_Witness ==
    /\ Served
    /\ req.handler = "explicit"
    /\ req.origin = Some(AExample)
    /\ req.corsOrigin = Some(AExample)
    /\ req.method = "POST"
    /\ res.nextCalls = 1
    /\ res.ended
    /\ res.status = 500
    /\ Echoed

\* C15: CorsMiddleware.use sets all five CORS headers on every request,
\* whatever CORS_ORIGIN and the request origin are, and the value of
\* Access-Control-Allow-Origin is never the empty string.
C15_CorsMiddlewareAlwaysSetsAValue ==
    (Served /\ req.handler = "CorsMiddleware")
    => /\ CorsHeaderNames \subseteq DOMAIN res.headers
       /\ res.headers[ACAO] # EmptyString

\* The enableCors layer of the first bootstrap grants: origin is true, or
\* originCallback answered (null, true).
EnableCorsMainGrants ==
    \/ cb.calls = 0
    \/ cb.calls = 1 /\ cb.err = "null" /\ cb.allow

\* C16: in the first bootstrap of main.ts the origin option of enableCors
\* (true in wildcard mode, originCallback otherwise) grants a request
\* exactly when the explicit middleware computes shouldAllow = true, and
\* both layers then write the same Access-Control-Allow-Origin.
C16_LayersAgree ==
    /\ (Served /\ req.handler = "enableCorsMain")
       => /\ EnableCorsMainGrants
              <=> shouldAllow(req.origin, corsOrigin, allowedOrigins)
          /\ Echoed <=> (/\ Truthy(req.origin)
                         /\ shouldAllow(req.origin, corsOrigin, allowedOrigins))
          /\ HasHeader(res, ACAO) => Echoed
    /\ (Served /\ req.handler = "explicit")
       => /\ Echoed <=> (/\ Truthy(req.origin)
                         /\ originCallback(req.origin, corsOrigin,
                                           allowedOrigins).allow)
          /\ HasHeader(res, ACAO) => Echoed

\* An origin named by CORS_ORIGIN only: originCallback grants it, as the
\* explicit middleware would.
C16_Witness ==
    /\ Served
    /\ req.handler = "enableCorsMain"
    /\ req.origin = Some(AExample)
    /\ corsOrigin = Some(AExample \o <<",">> \o BExample)
    /\ cb = [calls |-> 1, err |-> "null", allow |-> TRUE]
    /\ shouldAllow(req.origin, corsOrigin, allowedOrigins)
    /\ Echoed

====
